---- MODULE Spec2Model ----
(***************************************************************************)
(* One run of zen_json_output.main: the command-line target is classified, *)
(* the resolution pipeline issues its blocking HTTP requests one after the *)
(* other, and the result mapping is written.  Strings are sequences of     *)
(* one-character strings; an HTTP response body is the sequence of the     *)
(* fields the code's patterns look at.  The Authorization header built     *)
(* from --token changes no branch and no result and is left out.           *)
(***************************************************************************)
EXTENDS Integers, Sequences, FiniteSets, TLC

VARIABLES
    pc,                 \* position of the run in main and its callees
    target,             \* args.target
    is_target_organization, \* args.org
    mode,               \* which of target_organization / target_user / target_repo is set
    username,           \* main: username
    repo,               \* main: repo
    usernames,          \* find_emails_from_organization_usernames: usernames
    ui,                 \* index of the loop over usernames
    repos,              \* find_email_from_username: repos
    ri,                 \* index of the loop over repos
    contributors,       \* find_emails_from_repo: contributors
    ci,                 \* index of the loop over contributors
    response,           \* find_email_from_contributor: response (commits page)
    latest_commit,      \* find_email_from_contributor: latest_commit
    commit_details,     \* find_email_from_contributor: commit_details (patch body)
    email,              \* find_email_from_contributor: email
    json_result,        \* main: json_result / the callee's return_results
    returned,           \* the mappings handed to return_results.update, in order
    lastReq,            \* the most recent requests.get call
    status_code,        \* status of the most recent breach-database response
    seen,               \* login strings that occurred in the response bodies received
    stderr,             \* what main printed on standard error
    written,            \* what main wrote to the output
    exit_code           \* process exit status

vars == <<pc, target, is_target_organization, mode, username,
          repo, usernames, ui, repos, ri, contributors, ci, response, latest_commit,
          commit_details, email, json_result, returned, lastReq, status_code, seen,
          stderr, written, exit_code>>

(***************************************************************************)
(* Bounds                                                                  *)
(***************************************************************************)
MaxTargetLen == 7
MaxPath == 3
MaxList == 2
MaxAnchors == 2
MaxBodyLen == 5

Strings(A, n) == UNION {[1..k -> A] : k \in 0..n}
Range(s) == {s[i] : i \in 1..Len(s)}

TargetAlphabet == {"/", "a", "."}
PatchAlphabet == {"<", ">", "\n", "e"}
Names == {<<"a">>, <<"b">>}

(***************************************************************************)
(* String helpers                                                          *)
(***************************************************************************)
\* str.count("/")
Count(s, c) == Cardinality({i \in 1..Len(s) : s[i] = c})

\* str.endswith("/")
EndsWith(s, c) == Len(s) > 0 /\ s[Len(s)] = c

\* target[:-1] when the target ends with a slash
StripSlash(s) == IF EndsWith(s, "/") THEN SubSeq(s, 1, Len(s) - 1) ELSE s

\* str.split("/")
RECURSIVE Split(_)
Split(s) ==
    IF "/" \notin Range(s) THEN <<s>>
    ELSE LET i == CHOOSE k \in 1..Len(s) :
                      s[k] = "/" /\ \A j \in 1..(k - 1) : s[j] # "/"
         IN <<SubSeq(s, 1, i - 1)>> \o Split(SubSeq(s, i + 1, Len(s)))

\* seq[-1], seq[-2]
Last(s) == s[Len(s)]
SecondLast(s) == s[Len(s) - 1]

\* an identifier interpolated into a pattern with % is pattern text: "." matches
\* any character but a newline, every other character of the alphabets itself
PatChar(p, c) == IF p = "." THEN c # "\n" ELSE p = c
PatMatch(pat, s) ==
    /\ Len(pat) = Len(s)
    /\ \A i \in 1..Len(s) : PatChar(pat[i], s[i])

Dummy == <<"d", "u", "m", "m", "y">>

(***************************************************************************)
(* Data                                                                    *)
(***************************************************************************)
NoRequest == [kind |-> "none", args |-> <<>>]
NoEmail == [found |-> FALSE, value |-> <<>>]
Null == [found |-> FALSE, email |-> <<>>, pwned |-> FALSE]
Entry(e, p) == [found |-> TRUE, email |-> e, pwned |-> p]
EmptyMap == [k \in {} |-> Null]
Single(k, v) == [x \in {k} |-> v]
NoOutput == [dest |-> "none", data |-> EmptyMap]

\* dict.setdefault in place of dict.update: the first value of a key stays
UpdateKeepFirst(m, r) ==
    [k \in DOMAIN m \cup DOMAIN r |-> IF k \in DOMAIN m THEN m[k] ELSE r[k]]

\* dict.update
Update(m, r) ==
    [k \in DOMAIN m \cup DOMAIN r |-> IF k \in DOMAIN r THEN r[k] ELSE m[k]]

\* a test of the value found in place of the dict
TruthyValue(res) == \E k \in DOMAIN res : res[k].found

\* truth value of a dict
Truthy(res) == DOMAIN res # {}

(***************************************************************************)
(* Response bodies, as the fields the patterns look at                     *)
(***************************************************************************)
Hosts == {"github.com", "api.github.com"}
Forks == {"true", "false"}
ProfileBodies ==
    UNION {[1..k -> [host : Hosts, login : Names]] : k \in 0..MaxList}
ReposBodies ==
    UNION {[1..k -> [owner : Names, name : Names, fork : Forks]] : k \in 0..MaxList}
\* the commit anchors of a page, each with a hash of its own
Sha(i) == <<"c", ToString(i)>>
CommitsBodies ==
    {[i \in 1..Len(b) |-> [owner |-> b[i].owner, repo |-> b[i].repo, sha |-> Sha(i)]] :
        b \in UNION {[1..k -> [owner : Names, repo : Names]] : k \in 0..MaxAnchors}}
\* patches of the run: no address, one address, two lines with an address each
PatchBodies ==
    {<<"e">>,
     <<"<", "e", ">">>,
     <<"<", "f", ">", "\n", "<", "e", ">">>}
Statuses == {200, 404, 429}

(***************************************************************************)
(* Pattern extraction                                                      *)
(***************************************************************************)
\* re.findall(r'https://github\.com/(.*?)"', response)
ExtractProfileLogins(body) ==
    LET hits == SelectSeq(body, LAMBDA u : u.host = "github.com")
    IN [i \in 1..Len(hits) |-> hits[i].login]

\* re.findall(r'"full_name":"%s/(.*?)",.*?"fork":(.*?),' % username, response)
ExtractUserRepos(body, user) ==
    LET hits == SelectSeq(body, LAMBDA e : PatMatch(user, e.owner))
    IN [i \in 1..Len(hits) |-> <<hits[i].name, hits[i].fork>>]

\* the loop keeping repo[0] for each pair with repo[1] == 'false'
NonForked(pairs) ==
    LET kept == SelectSeq(pairs, LAMBDA p : p[2] = "false")
    IN [i \in 1..Len(kept) |-> kept[i][1]]

\* re.search(r'href="/%s/%s/commit/(.*?)"' % (username, repo), response)
AnchorMatches(a, owner, rp) == PatMatch(owner, a.owner) /\ PatMatch(rp, a.repo)
HasAnchor(body, owner, rp) == \E i \in 1..Len(body) : AnchorMatches(body[i], owner, rp)
FirstAnchor(body, owner, rp) ==
    body[CHOOSE i \in 1..Len(body) :
            /\ AnchorMatches(body[i], owner, rp)
            /\ \A j \in 1..(i - 1) : ~AnchorMatches(body[j], owner, rp)]

\* the last match in place of the first
ExtractLatestCommitShaLast(body, owner, rp) ==
    IF HasAnchor(body, owner, rp)
    THEN body[CHOOSE i \in 1..Len(body) :
                 /\ AnchorMatches(body[i], owner, rp)
                 /\ \A j \in (i + 1)..Len(body) : ~AnchorMatches(body[j], owner, rp)].sha
    ELSE Dummy

\* latest_commit: group(1) of the match, or 'dummy'
ExtractLatestCommitSha(body, owner, rp) ==
    IF HasAnchor(body, owner, rp) THEN FirstAnchor(body, owner, rp).sha ELSE Dummy

\* re.search(r'<(.*)>', commit_details), as the matcher runs it.
\* ".*" takes every character up to the end of the line ("." stops at a newline)
\* with re.DOTALL "." would run to the end of the body
RunEndDotAll(s, k) == Len(s)

RECURSIVE RunEnd(_, _)
RunEnd(s, k) ==
    IF k > Len(s) \/ s[k] = "\n" THEN k - 1 ELSE RunEnd(s, k + 1)

\* and gives characters back one by one until ">" follows; 0 when none does
RECURSIVE CloseAt(_, _, _)
CloseAt(s, i, m) ==
    IF m < i THEN 0
    ELSE IF m + 1 <= Len(s) /\ s[m + 1] = ">" THEN m + 1
    ELSE CloseAt(s, i, m - 1)

\* the match that starts at position i: the index of its ">", or 0
MatchAt(s, i) ==
    IF s[i] = "<" THEN CloseAt(s, i, RunEnd(s, i + 1)) ELSE 0

\* search tries the start positions from the left and stops at the first match
RECURSIVE SearchFrom(_, _)
SearchFrom(s, i) ==
    IF i > Len(s) THEN NoEmail
    ELSE IF MatchAt(s, i) > 0
    THEN [found |-> TRUE, value |-> SubSeq(s, i + 1, MatchAt(s, i) - 1)]
    ELSE SearchFrom(s, i + 1)

ExtractEmail(s) == SearchFrom(s, 1)

\* a test for "not found" in place of the test for 200
PwnedUnless404(st) == st # 404

\* requests.get(...).status_code == 200
Pwned(st) == st = 200

(***************************************************************************)
(* main: classification of the target                                      *)
(***************************************************************************)
\* the first segment in place of the last
ClassificationFirstSegment(t, org) ==
    IF Count(t, "/") < 4
    THEN [kind |-> IF org THEN "org" ELSE "user",
          username |-> IF "/" \in Range(t) THEN Head(Split(t)) ELSE t,
          repo |-> <<>>]
    ELSE IF Count(t, "/") = 4
    THEN [kind |-> "repo",
          username |-> SecondLast(Split(t)),
          repo |-> Last(Split(t))]
    ELSE [kind |-> "invalid", username |-> <<>>, repo |-> <<>>]

\* the --org flag tested before the shape of the target
ClassificationOrgFirst(t, org) ==
    IF org \/ Count(t, "/") < 4
    THEN [kind |-> IF org THEN "org" ELSE "user",
          username |-> IF "/" \in Range(t) THEN Last(Split(t)) ELSE t,
          repo |-> <<>>]
    ELSE IF Count(t, "/") = 4
    THEN [kind |-> "repo",
          username |-> SecondLast(Split(t)),
          repo |-> Last(Split(t))]
    ELSE [kind |-> "invalid", username |-> <<>>, repo |-> <<>>]

\* no upper limit on the number of slashes of a repository URL
ClassificationNoLimit(t, org) ==
    IF Count(t, "/") < 4
    THEN [kind |-> IF org THEN "org" ELSE "user",
          username |-> IF "/" \in Range(t) THEN Last(Split(t)) ELSE t,
          repo |-> <<>>]
    ELSE [kind |-> "repo",
          username |-> SecondLast(Split(t)),
          repo |-> Last(Split(t))]

\* the branch on target.count("/") after the trailing slash is removed
Classification(t, org) ==
    IF Count(t, "/") < 4
    THEN [kind |-> IF org THEN "org" ELSE "user",
          username |-> IF "/" \in Range(t) THEN Last(Split(t)) ELSE t,
          repo |-> <<>>]
    ELSE IF Count(t, "/") = 4
    THEN [kind |-> "repo",
          username |-> SecondLast(Split(t)),
          repo |-> Last(Split(t))]
    ELSE [kind |-> "invalid", username |-> <<>>, repo |-> <<>>]

FirstPc(kind) ==
    CASE kind = "org" -> "members"
      [] kind = "user" -> "repos"
      [] kind = "repo" -> "contributors"
      [] OTHER -> "exit"

(***************************************************************************)
(* Where the run stands inside the nested calls                            *)
(***************************************************************************)
\* the username find_email_from_username was called with
CurUser == IF mode = "org" THEN usernames[ui] ELSE username
\* the arguments find_email_from_contributor was called with
CurOwner == IF mode = "repo" THEN username ELSE CurUser
CurRepo == IF mode = "repo" THEN repo ELSE repos[ri]
CurContributor == IF mode = "repo" THEN contributors[ci] ELSE CurUser

Req(kind, args) == [kind |-> kind, args |-> args]

\* the requests.get call the run is about to make
CurrentRequest ==
    CASE pc = "members" -> Req("members", <<username>>)
      [] pc = "repos" -> Req("repos", <<CurUser>>)
      [] pc = "contributors" ->
            Req("contributors", <<username, repo>>)
      [] pc = "commits" ->
            Req("commits", <<CurOwner, CurRepo, CurContributor>>)
      [] pc = "patch" ->
            Req("patch", <<CurOwner, CurRepo, latest_commit>>)
      [] pc = "breach" -> Req("breach", <<email.value>>)
      [] OTHER -> NoRequest

RequestPcs == {"members", "repos", "contributors", "commits", "patch", "breach"}

\* the member's mapping assigned in place of merged
AfterUserAssign(res) ==
    IF mode = "user"
    THEN [pc |-> "output", ui |-> ui, ri |-> ri, ci |-> ci, json_result |-> res,
          returned |-> returned]
    ELSE [pc |-> IF ui < Len(usernames) THEN "repos" ELSE "output",
          ui |-> ui + 1, ri |-> ri, ci |-> ci,
          json_result |-> res,
          returned |-> Append(returned, res)]

\* find_email_from_username returns res: to main (user target), or to the loop of
\* find_emails_from_organization_usernames, which merges it and goes on
AfterUser(res) ==
    IF mode = "user"
    THEN [pc |-> "output", ui |-> ui, ri |-> ri, ci |-> ci, json_result |-> res,
          returned |-> returned]
    ELSE [pc |-> IF ui < Len(usernames) THEN "repos" ELSE "output",
          ui |-> ui + 1, ri |-> ri, ci |-> ci,
          json_result |-> Update(json_result, res),
          returned |-> Append(returned, res)]

\* find_email_from_contributor returns res: to the loop of find_emails_from_repo,
\* or to the loop of find_email_from_username with its "if return_results" test
AfterContributor(res) ==
    IF mode = "repo"
    THEN [pc |-> IF ci < Len(contributors) THEN "commits" ELSE "output",
          ui |-> ui, ri |-> ri, ci |-> ci + 1,
          json_result |-> Update(json_result, res),
          returned |-> Append(returned, res)]
    ELSE IF Truthy(res) THEN AfterUser(res)
    ELSE IF ri < Len(repos)
    THEN [pc |-> "commits", ui |-> ui, ri |-> ri + 1, ci |-> ci,
          json_result |-> json_result, returned |-> returned]
    ELSE AfterUser(EmptyMap)

Resume(n) ==
    /\ pc' = n.pc
    /\ ui' = n.ui
    /\ ri' = n.ri
    /\ ci' = n.ci
    /\ json_result' = n.json_result
    /\ returned' = n.returned

(***************************************************************************)
(* Initial states                                                          *)
(***************************************************************************)
\* the shapes of the usage text: a bare name or path, or a URL on the site, each
\* with or without a trailing slash
UrlPrefix == <<"h", ":", "/", "/", "g", "/">>
CliNames == {<<"a">>, <<".">>}
Paths == UNION {[1..k -> CliNames] : k \in 1..MaxPath}
RECURSIVE Join(_)
Join(path) ==
    IF Len(path) = 1 THEN path[1]
    ELSE path[1] \o <<"/">> \o Join(Tail(path))
Targets ==
    {pre \o Join(p) \o suf :
        pre \in {<<>>, UrlPrefix}, p \in Paths, suf \in {<<>>, <<"/">>}}

\* nothing has been requested, resolved or written yet
Idle ==
    /\ usernames = <<>>
    /\ ui = 1
    /\ repos = <<>>
    /\ ri = 1
    /\ contributors = <<>>
    /\ ci = 1
    /\ response = <<>>
    /\ latest_commit = <<>>
    /\ commit_details = <<>>
    /\ email = NoEmail
    /\ json_result = EmptyMap
    /\ returned = <<>>
    /\ lastReq = NoRequest
    /\ status_code = 0
    /\ seen = {}
    /\ stderr = ""
    /\ written = NoOutput
    /\ exit_code = -1

\* main is entered with the parsed arguments
Init ==
    /\ pc = "start"
    /\ target \in Targets
    /\ is_target_organization \in BOOLEAN
    /\ mode = "none"
    /\ username = <<>>
    /\ repo = <<>>
    /\ Idle

args == <<is_target_organization>>
locals == <<usernames, repos, contributors, response, latest_commit,
            commit_details, email>>
loops == <<ui, ri, ci, json_result, returned>>
outs == <<stderr, written, exit_code>>

(***************************************************************************)
(* Actions                                                                 *)
(***************************************************************************)
Classify ==
    /\ pc = "start"
    /\ LET t == StripSlash(target)
           c == Classification(t, is_target_organization)
       IN /\ target' = t
          /\ mode' = c.kind
          /\ username' = c.username
          /\ repo' = c.repo
          /\ pc' = FirstPc(c.kind)
          /\ IF c.kind = "invalid"
             THEN stderr' = "Invalid input target type." /\ exit_code' = 1
             ELSE UNCHANGED <<stderr, exit_code>>
    /\ UNCHANGED <<args, locals, loops, lastReq, status_code, seen, written>>

\* find_users_from_organization, then the first step of the loop over the members
ListOrgMembers ==
    /\ pc = "members"
    /\ lastReq' = CurrentRequest
    /\ \E body \in ProfileBodies :
          /\ usernames' = ExtractProfileLogins(body)
          /\ seen' = seen \cup {body[i].login : i \in 1..Len(body)}
          /\ pc' = IF usernames' = <<>> THEN "output" ELSE "repos"
    /\ ui' = 1
    /\ UNCHANGED <<target, args, mode, username, repo, repos, ri, contributors, ci,
                   response, latest_commit, commit_details, email, json_result,
                   returned, status_code, outs>>

\* find_repos_from_username, then the first step of the loop over the repos
ListUserRepos ==
    /\ pc = "repos"
    /\ lastReq' = CurrentRequest
    /\ \E body \in ReposBodies :
          LET found == NonForked(ExtractUserRepos(body, CurUser))
              n == IF found = <<>> THEN AfterUser(EmptyMap)
                   ELSE [pc |-> "commits", ui |-> ui, ri |-> 1, ci |-> ci,
                         json_result |-> json_result, returned |-> returned]
          IN /\ repos' = found
             /\ seen' = seen \cup {body[i].owner : i \in 1..Len(body)}
             /\ Resume([n EXCEPT !.ri = 1])
    /\ UNCHANGED <<target, args, mode, username, repo, usernames, contributors,
                   response, latest_commit, commit_details, email, status_code, outs>>

\* find_contributors_from_repo, then the first step of the loop over them
ListContributors ==
    /\ pc = "contributors"
    /\ lastReq' = CurrentRequest
    /\ \E body \in ProfileBodies :
          /\ contributors' = ExtractProfileLogins(body)
          /\ seen' = seen \cup {body[i].login : i \in 1..Len(body)}
          /\ pc' = IF contributors' = <<>> THEN "output" ELSE "commits"
    /\ ci' = 1
    /\ UNCHANGED <<target, args, mode, username, repo, usernames, ui, repos, ri,
                   response, latest_commit, commit_details, email, json_result,
                   returned, status_code, outs>>

\* find_email_from_contributor: the commits-by-author page and latest_commit
FetchCommits ==
    /\ pc = "commits"
    /\ lastReq' = CurrentRequest
    /\ \E body \in CommitsBodies :
          /\ response' = body
          /\ latest_commit' = ExtractLatestCommitSha(body, CurOwner, CurRepo)
    /\ pc' = "patch"
    /\ UNCHANGED <<target, args, mode, username, repo, usernames, repos, contributors,
                   commit_details, email, loops, status_code, seen, outs>>

\* find_email_from_contributor: the patch of latest_commit and the email in it;
\* without an email the call returns {contributor: None}
FetchPatch ==
    /\ pc = "patch"
    /\ lastReq' = CurrentRequest
    /\ \E body \in PatchBodies :
          LET e == ExtractEmail(body)
          IN /\ email' = e
             /\ IF e.found
                THEN pc' = "breach" /\ UNCHANGED loops
                ELSE Resume(AfterContributor(Single(CurContributor, Null)))
    /\ response' = <<>>
    /\ latest_commit' = <<>>
    /\ UNCHANGED <<target, args, mode, username, repo, usernames, repos, contributors,
                   commit_details, status_code, seen, outs>>

\* find_email_from_contributor: the breach lookup; the call returns
\* {contributor: {email, pwned}}
CheckBreach ==
    /\ pc = "breach"
    /\ lastReq' = CurrentRequest
    /\ \E st \in Statuses :
          /\ status_code' = st
          /\ Resume(AfterContributor(
                 Single(CurContributor, Entry(email.value, Pwned(st)))))
    /\ email' = NoEmail
    /\ UNCHANGED <<target, args, mode, username, repo, usernames, repos, contributors,
                   response, latest_commit, commit_details, seen, outs>>

\* requests.get raises (no connection, timeout): nothing catches it
TransportError ==
    /\ pc \in RequestPcs
    /\ lastReq' = CurrentRequest
    /\ pc' = "crashed"
    /\ stderr' = "Traceback"
    /\ exit_code' = 1
    /\ UNCHANGED <<target, args, mode, username, repo, locals, loops, status_code,
                   seen, written>>

\* main: json.dump to the --output file, or print
Output ==
    /\ pc = "output"
    /\ \E dest \in {"file", "stdout"} :
          written' = [dest |-> dest, data |-> json_result]
    /\ pc' = "done"
    /\ exit_code' = 0
    /\ UNCHANGED <<target, args, mode, username, repo, locals, loops, lastReq,
                   status_code, seen, stderr>>

Next ==
    \/ Classify
    \/ ListOrgMembers
    \/ ListUserRepos
    \/ ListContributors
    \/ FetchCommits
    \/ FetchPatch
    \/ CheckBreach
    \/ TransportError
    \/ Output

Spec == Init /\ [][Next]_vars

(***************************************************************************)
(* The run from the point where main calls into the pipeline: the state    *)
(* Classify leaves for target t and flag org                               *)
(***************************************************************************)
StartAt(t, org) ==
    /\ pc = FirstPc(Classification(t, org).kind)
    /\ target = t
    /\ is_target_organization = org
    /\ mode = Classification(t, org).kind
    /\ username = Classification(t, org).username
    /\ repo = Classification(t, org).repo
    /\ Idle

\* find_email_from_username(username) called by main
InitUser == \E u \in CliNames : StartAt(u, FALSE)
NextUser ==
    \/ ListUserRepos
    \/ FetchCommits
    \/ FetchPatch
    \/ CheckBreach
    \/ TransportError
    \/ Output
SpecUser == InitUser /\ [][NextUser]_vars

\* find_emails_from_repo(username, repo) called by main
InitRepo ==
    \E u \in CliNames, r \in CliNames :
        StartAt(UrlPrefix \o u \o <<"/">> \o r, FALSE)
NextRepo ==
    \/ ListContributors
    \/ FetchCommits
    \/ FetchPatch
    \/ CheckBreach
    \/ TransportError
    \/ Output
SpecRepo == InitRepo /\ [][NextRepo]_vars

\* find_users_from_organization(username) called by main
InitOrg == StartAt(<<"a">>, TRUE)
NextOrg ==
    \/ ListOrgMembers
    \/ ListUserRepos
    \/ FetchCommits
    \/ FetchPatch
    \/ CheckBreach
    \/ TransportError
    \/ Output
SpecOrg == InitOrg /\ [][NextOrg]_vars

\* the classification alone, over every target string up to MaxTargetLen
InitClassify ==
    /\ pc = "start"
    /\ target \in Strings(TargetAlphabet, MaxTargetLen)
    /\ is_target_organization \in BOOLEAN
    /\ mode = "none"
    /\ username = <<>>
    /\ repo = <<>>
    /\ Idle
SpecClassify == InitClassify /\ [][Classify]_vars

\* the email extraction alone, over every patch body up to MaxBodyLen
ExtractFromPatch ==
    /\ pc = "extract"
    /\ email' = ExtractEmail(commit_details)
    /\ pc' = "extracted"
    /\ UNCHANGED <<target, args, mode, username, repo, usernames, repos, contributors,
                   response, latest_commit, commit_details, loops, lastReq,
                   status_code, seen, outs>>
InitEmail ==
    /\ pc = "extract"
    /\ commit_details \in Strings(PatchAlphabet, MaxBodyLen)
    /\ target = <<>>
    /\ is_target_organization = FALSE
    /\ mode = "none"
    /\ username = <<>>
    /\ repo = <<>>
    /\ usernames = <<>>
    /\ ui = 1
    /\ repos = <<>>
    /\ ri = 1
    /\ contributors = <<>>
    /\ ci = 1
    /\ response = <<>>
    /\ latest_commit = <<>>
    /\ email = NoEmail
    /\ json_result = EmptyMap
    /\ returned = <<>>
    /\ lastReq = NoRequest
    /\ status_code = 0
    /\ seen = {}
    /\ stderr = ""
    /\ written = NoOutput
    /\ exit_code = -1
SpecEmail == InitEmail /\ [][ExtractFromPatch]_vars

(***************************************************************************)
(* Properties                                                              *)
(***************************************************************************)
MinOf(S) == CHOOSE x \in S : \A y \in S : x <= y
MaxOf(S) == CHOOSE x \in S : \A y \in S : x >= y

\* a value of the result mapping: null, or an email with its pwned flag
IsResultValue(v) == IF v.found THEN v.pwned \in BOOLEAN ELSE v = Null

\* C1: find_email_from_username resolves the first non-forked repo only, for the
\* username as contributor; every commits and patch request of the run is for
\* that repo, the mapping returned is that repo's result even when it is
\* {username: null}, and with no non-forked repo it is the empty mapping.
C1_FirstRepoWins ==
    /\ pc \in {"commits", "patch", "breach"} => ri = 1
    /\ lastReq.kind = "commits" => lastReq.args = <<username, repos[1], username>>
    /\ lastReq.kind = "patch" =>
          lastReq.args[1] = username /\ lastReq.args[2] = repos[1]
    /\ pc \in {"output", "done"} =>
          IF repos = <<>>
          THEN json_result = EmptyMap /\ lastReq.kind = "repos"
          ELSE /\ lastReq.kind \in {"patch", "breach"}
               /\ DOMAIN json_result = {username}
               /\ json_result[username] =
                     IF lastReq.kind = "patch" THEN Null
                     ELSE Entry(lastReq.args[1], status_code = 200)

\* two different non-forked repos, the first gave no email: {username: null} is
\* returned with the patch of the first repo as the last request
C1_Witness ==
    /\ pc = "output"
    /\ Len(repos) = 2
    /\ repos[1] # repos[2]
    /\ json_result = Single(username, Null)
    /\ lastReq.kind = "patch"
    /\ lastReq.args[2] = repos[1]

\* C2: find_emails_from_repo resolves every contributor of the list once, in list
\* order; the keys of the mapping are exactly the logins resolved, each with
\* null or {email, pwned}, and a login that occurs twice keeps the value of its
\* last occurrence.
C2_RepoMerge ==
    /\ Len(returned) = ci - 1
    /\ Len(returned) <= Len(contributors)
    /\ \A i \in 1..Len(returned) :
          /\ DOMAIN returned[i] = {contributors[i]}
          /\ IsResultValue(returned[i][contributors[i]])
    /\ lastReq.kind = "commits" => lastReq.args = <<username, repo, contributors[ci]>>
    /\ DOMAIN json_result = {contributors[i] : i \in 1..Len(returned)}
    /\ \A k \in DOMAIN json_result :
          json_result[k] =
             returned[MaxOf({i \in 1..Len(returned) : contributors[i] = k})][k]
    /\ pc \in {"output", "done"} => Len(returned) = Len(contributors)

\* the same login twice with two different results: the second one is kept
C2_Witness ==
    /\ pc = "output"
    /\ Len(contributors) = 2
    /\ contributors[1] = contributors[2]
    /\ returned[1] # returned[2]
    /\ json_result = returned[2]

\* u is what follows the last slash of t, or all of t when t has no slash
AfterLastSlash(t, u) ==
    /\ "/" \notin Range(u)
    /\ Len(u) <= Len(t)
    /\ SubSeq(t, Len(t) - Len(u) + 1, Len(t)) = u
    /\ Len(u) < Len(t) => t[Len(t) - Len(u)] = "/"

\* t ends with /u/r
OwnerRepoTail(t, u, r) ==
    /\ "/" \notin (Range(u) \cup Range(r))
    /\ Len(t) >= Len(u) + Len(r) + 2
    /\ SubSeq(t, Len(t) - Len(r) + 1, Len(t)) = r
    /\ t[Len(t) - Len(r)] = "/"
    /\ SubSeq(t, Len(t) - Len(r) - Len(u), Len(t) - Len(r) - 1) = u
    /\ t[Len(t) - Len(r) - Len(u) - 1] = "/"

OneSlashOff(t) ==
    IF Len(t) > 0 /\ t[Len(t)] = "/" THEN [i \in 1..(Len(t) - 1) |-> t[i]] ELSE t
Slashes(t) == Cardinality({i \in DOMAIN t : t[i] = "/"})

\* the step classifies the target as the user or the organization named after
\* its last slash
ClassifiedByName ==
    /\ mode' = IF is_target_organization THEN "org" ELSE "user"
    /\ AfterLastSlash(OneSlashOff(target), username')

\* C3 as stated: a target with 4 or fewer slashes, one trailing slash removed, is
\* classified as Organization or User of the name after its last slash.
C3_Original ==
    [][(pc = "start" /\ Slashes(OneSlashOff(target)) <= 4) => ClassifiedByName]_vars

\* C3 as amended: a target with 3 or fewer slashes, one trailing slash removed,
\* is classified as Organization (flag set) or User of the name after its last
\* slash, or of the whole string when it has no slash.
C3_UserOrOrg ==
    [][(pc = "start" /\ Slashes(OneSlashOff(target)) < 4) => ClassifiedByName]_vars

\* a target with three slashes and a name at its end, classified with --org
C3_Witness ==
    /\ pc = "members"
    /\ mode = "org"
    /\ Slashes(target) = 3
    /\ username # <<>>
    /\ AfterLastSlash(target, username)

\* C4: a target of exactly 5 segments, one trailing slash removed, is classified
\* as Repo(second-to-last segment, last segment) and the run goes on with
\* find_emails_from_repo, whatever the --org flag.
C4_RepoShape ==
    [][(pc = "start" /\ Slashes(OneSlashOff(target)) = 4)
          => /\ mode' = "repo"
             /\ OwnerRepoTail(OneSlashOff(target), username', repo')
             /\ pc' = "contributors"]_vars

\* a five-segment target given with --org, classified as a repository
C4_Witness ==
    /\ pc = "contributors"
    /\ mode = "repo"
    /\ is_target_organization
    /\ username # <<>>
    /\ repo # <<>>
    /\ OwnerRepoTail(target, username, repo)

\* C5: a target with more than 4 slashes, one trailing slash removed, ends the run
\* with the message on standard error and exit status 1; no request has been made,
\* nothing has been written and the run takes no further step.
C5_InvalidTarget ==
    (pc # "start" /\ Slashes(target) > 4)
        => /\ pc = "exit"
           /\ stderr = "Invalid input target type."
           /\ exit_code = 1
           /\ lastReq = NoRequest
           /\ written = NoOutput
           /\ ~ENABLED Next

\* a target of five slashes after classification
C5_Witness ==
    /\ pc = "exit"
    /\ Slashes(target) = 5
    /\ exit_code = 1

\* the breach lookup of the last call returned has put its outcome in the mapping
BreachRecorded ==
    /\ Len(returned) > 0
    /\ \E k \in DOMAIN returned[Len(returned)] :
          /\ returned[Len(returned)][k] = Entry(lastReq.args[1], status_code = 200)
          /\ json_result[k] = returned[Len(returned)][k]

\* C6 as stated: whatever the outcome of the breach request, a transport error
\* included, the run goes on and pwned is true exactly when the status was 200.
C6_Original ==
    lastReq.kind = "breach" => (pc # "crashed" /\ BreachRecorded)

\* C6 as amended: when the breach request returns a response, pwned is true
\* exactly when its status is 200 and the run goes on; when the request raises a
\* transport error the run ends there: the call returns nothing, nothing is
\* written and the exit status is 1.
C6_BreachStatus ==
    lastReq.kind = "breach" =>
        IF pc = "crashed"
        THEN Len(returned) = ci - 1 /\ written = NoOutput /\ exit_code = 1
        ELSE BreachRecorded

\* a breach response with a status other than 200, recorded as not pwned
C6_Witness ==
    /\ lastReq.kind = "breach"
    /\ pc = "output"
    /\ status_code = 429
    /\ BreachRecorded
    /\ written = NoOutput

\* sha is what the patch request must name for this commits page: 'dummy' when
\* no anchor matches the pattern of owner and repo, the hash of the first
\* matching anchor otherwise
ExpectedSha(page, owner, rp, sha) ==
    IF \A i \in 1..Len(page) : ~AnchorMatches(page[i], owner, rp)
    THEN sha = Dummy
    ELSE \E i \in 1..Len(page) :
            /\ AnchorMatches(page[i], owner, rp)
            /\ \A j \in 1..(i - 1) : ~AnchorMatches(page[j], owner, rp)
            /\ sha = page[i].sha

Lts(s) == {i \in 1..Len(s) : s[i] = "<"}
Gts(s) == {i \in 1..Len(s) : s[i] = ">"}
SameLine(s, i, j) == \A k \in i..j : s[k] # "\n"

\* the content between the first "<" and the last ">" of the whole body
FirstToLast(s) ==
    IF \E i \in Lts(s), j \in Gts(s) : i < j
    THEN [found |-> TRUE, value |-> SubSeq(s, MinOf(Lts(s)) + 1, MaxOf(Gts(s)) - 1)]
    ELSE NoEmail

\* the content between the first "<" that has a ">" after it on its line and
\* the last ">" of that line
LineOpeners(s) == {i \in Lts(s) : \E j \in Gts(s) : i < j /\ SameLine(s, i, j)}
FirstOnLine(s) ==
    IF LineOpeners(s) = {} THEN NoEmail
    ELSE LET i == MinOf(LineOpeners(s))
             j == MaxOf({m \in Gts(s) : i < m /\ SameLine(s, i, m)})
         IN [found |-> TRUE, value |-> SubSeq(s, i + 1, j - 1)]

\* C8 as stated: the email is the content between the first "<" and the last ">"
\* anywhere in the body, and absent exactly when no "<" has a ">" after it.
C8_Original ==
    pc = "extracted" => email = FirstToLast(commit_details)

\* C8 as amended: the email is the content between the first "<" that has a ">"
\* after it on the same line and the last ">" of that line, and absent exactly
\* when no line has a "<" with a ">" after it.
C8_SameLine ==
    pc = "extracted" => email = FirstOnLine(commit_details)

\* a body of several lines whose email is not the first-to-last content
C8_Witness ==
    /\ pc = "extracted"
    /\ email.found
    /\ "\n" \in Range(commit_details)
    /\ email # FirstToLast(commit_details)

\* C9: find_emails_from_organization_usernames runs find_email_from_username
\* once for each member, in list order, and the mapping is the left-to-right
\* merge of what the calls returned: a key is a member login, its value is that
\* of the last call that returned it, a member with an empty result adds no key.
C9_OrgMerge ==
    /\ Len(returned) = ui - 1
    /\ Len(returned) <= Len(usernames)
    /\ \A i \in 1..Len(returned) : DOMAIN returned[i] \subseteq {usernames[i]}
    /\ lastReq.kind = "repos" =>
          lastReq.args =
             <<usernames[IF pc \in {"repos", "output", "done"} THEN ui - 1 ELSE ui]>>
    /\ DOMAIN json_result = UNION {DOMAIN returned[i] : i \in 1..Len(returned)}
    /\ DOMAIN json_result \subseteq Range(usernames)
    /\ \A k \in DOMAIN json_result :
          json_result[k] =
             returned[MaxOf({i \in 1..Len(returned) : k \in DOMAIN returned[i]})][k]
    /\ pc \in {"output", "done"} => Len(returned) = Len(usernames)

\* two members, the first with an empty result and the second with an entry
C9_Witness ==
    /\ pc = "output"
    /\ Len(usernames) = 2
    /\ usernames[1] # usernames[2]
    /\ returned[1] = EmptyMap
    /\ returned[2] # EmptyMap
    /\ DOMAIN json_result = {usernames[2]}

\* C10: every key of the result mapping is a login string that occurred in a
\* response body of the run.
C10_KeysFromResponses ==
    \A k \in DOMAIN json_result : k \in seen
====
